---- MODULE Spec2Model ----
(***************************************************************************)
(* Model of scripts/gui-server.py: the management server that locates,     *)
(* starts, stops and restarts the CLIProxyAPI server process, checks the   *)
(* remote repository for a newer commit and installs it in place.          *)
(*                                                                         *)
(* The HTTP front door is http.server.HTTPServer, whose serve_forever loop *)
(* handles one request at a time: a request is taken from the listen       *)
(* backlog only when no handler is active.  The environment (processes     *)
(* appearing and exiting, the remote branch moving) acts between any two   *)
(* steps of a handler: each step runs up to the next sleep or network call.*)
(***************************************************************************)
EXTENDS Integers, Sequences, FiniteSets, TLC

(***************************************************************************)
(* Bounds of the model.                                                    *)
(***************************************************************************)
MaxPid     == 2   \* process identifiers the OS hands out in one behaviour
MaxCommits == 2   \* commits the remote branch goes through
MaxTime    == 2   \* remote checks in one behaviour, each at a later time
MaxBacklog == 1   \* connections waiting in the listen backlog
ShaLen     == 8   \* length of a full commit identifier (longer than ShortLen)

(***************************************************************************)
(* Program constants.                                                      *)
(***************************************************************************)
ShortLen == 7     \* commit['sha'][:7]
NoPid    == 0     \* get_server_process() returning None
NoTime   == 0     \* None for commitDate / lastCheck

Pids    == 1..MaxPid
Commits == 1..MaxCommits

Ops == {"status", "start", "stop", "restart", "check", "install"}

VARIABLES
  procs,      \* pids of the live processes whose name matches PROCESS_NAMES
  signalled,  \* live pids that were sent SIGTERM and have not exited yet
  nextPid,    \* the pid the OS gives the next process
  fs,         \* the files: binary, config, version file, toggle file, temp dirs
  remote,     \* the commit the remote branch points to
  now,        \* the clock the timestamps are taken from
  backlog,    \* requests accepted by the socket and not yet handled
  cur         \* the request handler: operation, position, locals, result

vars == <<procs, signalled, nextPid, fs, remote, now, backlog, cur>>

(***************************************************************************)
(* Commit identifiers.  A full identifier is ShaLen symbols; 'unknown' is  *)
(* a string of letters that are no hexadecimal digits (symbol 0).          *)
(***************************************************************************)
Sha(c)  == [i \in 1..ShaLen |-> c]
Date(c) == c
Unknown == [i \in 1..7 |-> 0]
NoSha   == << >>

\* commit['sha'][:7]
Short(sha) == SubSeq(sha, 1, IF Len(sha) < ShortLen THEN Len(sha) ELSE ShortLen)

(***************************************************************************)
(* ProcessLocator: the first matching process of the scan, which lists the *)
(* processes by ascending pid.                                             *)
(***************************************************************************)
MinOf(S) == CHOOSE x \in S : \A y \in S : x <= y

LocateLast(ps) == IF ps = {} THEN NoPid ELSE CHOOSE x \in ps : \A y \in ps : y <= x
Locate(ps) == IF ps = {} THEN NoPid ELSE MinOf(ps)

\* get_server_status(): running and pid (port and endpoint are constants)
Status(ps) ==
  LET proc == Locate(ps)
  IN  [running |-> proc # NoPid, pid |-> proc]

(***************************************************************************)
(* Results of the operations: {'success': ..., 'error' / 'pid' / ...}.     *)
(***************************************************************************)
Result(ok, kind, pid) == [success |-> ok, kind |-> kind, pid |-> pid]
NoResult == Result(FALSE, "none", NoPid)

\* start_api_server(), lines 139-148: the three rejections, in this order
StartPrecheckNoPid(proc, binary, config) ==
  IF proc # NoPid THEN Result(FALSE, "AlreadyRunning", NoPid)
  ELSE IF ~binary THEN Result(FALSE, "BinaryMissing", NoPid)
  ELSE IF ~config THEN Result(FALSE, "ConfigMissing", NoPid)
  ELSE NoResult
StartPrecheck(proc, binary, config) ==
  IF proc # NoPid THEN Result(FALSE, "AlreadyRunning", proc)
  ELSE IF ~binary THEN Result(FALSE, "BinaryMissing", NoPid)
  ELSE IF ~config THEN Result(FALSE, "ConfigMissing", NoPid)
  ELSE NoResult

\* start_api_server(), lines 151-162: what the call has done to
\* server-stdout.log and server-stderr.log: left them as they were ("old"), or
\* created or emptied them ("truncated"); they are reached only past the three
\* checks, and only if the log directory can be written
LogsAfterStartAlways(pre, writable, logs) == "truncated"
LogsAfterStart(pre, writable, logs) ==
  IF pre = NoResult /\ writable THEN "truncated" ELSE logs

\* start_api_server(), lines 174-187: proc.poll() after the settle interval
StartPollLocate(child, ps) ==
  IF ps # {} THEN Result(TRUE, "Started", child)
  ELSE Result(FALSE, "ExitedImmediately", NoPid)
StartPollAlways(child, ps) == Result(TRUE, "Started", child)
StartPoll(child, ps) ==
  IF child \in ps THEN Result(TRUE, "Started", child)
  ELSE Result(FALSE, "ExitedImmediately", NoPid)

\* stop_api_server(), lines 195-197: whether a signal is sent to the found process
StopSignalsAlways(proc) == TRUE
StopSignals(proc) == proc # NoPid

\* stop_api_server(), lines 196-205
StopResult(proc, killed) ==
  IF proc = NoPid THEN Result(FALSE, "NotRunning", NoPid)
  ELSE IF killed THEN Result(TRUE, "Stopped", NoPid)
  ELSE Result(FALSE, "KillFailed", NoPid)

\* where the caller of stop_api_server() goes on, whatever stop returned:
\* lines 747, 210-211 and 607-608
AfterStopPcStrict(op, ok) ==
  IF op = "restart" THEN (IF ok THEN "restart_sleep" ELSE "done")
  ELSE IF op = "install" THEN "inst_sleep"
  ELSE "done"
AfterStopPc(op, ok) ==
  IF op = "restart" THEN "restart_sleep"
  ELSE IF op = "install" THEN "inst_sleep"
  ELSE "done"

(***************************************************************************)
(* VersionStore: the version file is absent, unparseable, or a JSON object *)
(* with some of the keys scripts, commitSha, commitDate, lastCheck.        *)
(***************************************************************************)
AllKeys == {"scripts", "commitSha", "commitDate", "lastCheck"}

VersionRec(state, keys, sha, date, lastCheck) ==
  [state |-> state, keys |-> keys, sha |-> sha, date |-> date, lastCheck |-> lastCheck]

\* default_version, lines 537-542
DefaultVersion == VersionRec("ok", AllKeys, Unknown, NoTime, NoTime)
AbsentVersion  == VersionRec("absent", {}, Unknown, NoTime, NoTime)
CorruptVersion == VersionRec("corrupt", {}, Unknown, NoTime, NoTime)

\* get_local_version(): the record it returns
ReadVersionDefaults(vf) == DefaultVersion
ReadVersion(vf) ==
  IF vf.state = "ok"
  THEN IF "commitSha" \in vf.keys THEN vf
       ELSE [vf EXCEPT !.keys = @ \cup {"commitSha"}, !.sha = Unknown]
  ELSE DefaultVersion

\* get_local_version(): whether it has to write the default file (line 543)
ReadWrites(vf) == vf.state # "ok"

\* get_local_version(): the file it leaves behind
VersionAfterRead(vf) == IF ReadWrites(vf) THEN DefaultVersion ELSE vf

\* get_update_info(), lines 575-578
HasUpdateAlways(localSha, latest) == TRUE
HasUpdate(localSha, latest) ==
  IF localSha = Unknown THEN TRUE ELSE localSha # latest

\* get_update_info(): the result dictionary
Info(error, latest, latestDate, hasUpdate) ==
  [error |-> error, latest |-> latest, latestDate |-> latestDate, hasUpdate |-> hasUpdate]
NoInfo == Info(FALSE, NoSha, NoTime, FALSE)

\* get_update_info(), lines 580-582: the record written back after a check
StampNothing(local, time) == local
StampCheck(local, time) ==
  [local EXCEPT !.keys = @ \cup {"lastCheck"}, !.lastCheck = time]

\* install_update(), lines 649-652: the record written by the persist step
AdvanceNothing(local, info) == local
AdvanceFullSha(local, info) ==
  [local EXCEPT !.keys = @ \cup {"commitSha", "commitDate"},
                !.sha = [i \in 1..ShaLen |-> info.latest[1]],
                !.date = info.latestDate]
AdvanceVersion(local, info) ==
  [local EXCEPT !.keys = @ \cup {"commitSha", "commitDate"},
                !.sha = info.latest, !.date = info.latestDate]

(***************************************************************************)
(* The live files and the release archive.                                 *)
(***************************************************************************)
\* what a request has done to the scripts in BIN_DIR and to the files beside
\* GUI_PATH: left them as they were ("old"), replaced them all by the
\* archive's ("new"), or replaced some in a copy loop that stopped ("torn")
Copied(bin, gui) == [bin |-> bin, gui |-> gui]
NoCopy == Copied("old", "old")

\* the folders found under the top-level folder of the extracted archive
Archive(scripts, gui) == [scripts |-> scripts, gui |-> gui]
Archives  == { Archive(s, g) : s \in BOOLEAN, g \in BOOLEAN }
NoArchive == Archive(FALSE, FALSE)

\* install_update(), lines 632-637: the scripts in BIN_DIR after the loop ended
BinAfterCopy(archive, bin) == IF archive.scripts THEN "new" ELSE bin

\* install_update(), lines 642-646: the GUI files after the loop ended
GuiAfterCopyAlways(archive, gui) == "new"
GuiAfterCopy(archive, gui) == IF archive.gui THEN "new" ELSE gui

(***************************************************************************)
(* ProviderToggleSet: provider-toggles.json is absent, unparseable, or a   *)
(* JSON object from keys to enabled-states.                                *)
(***************************************************************************)
\* the provider identifiers: the keys of flags in start_oauth_login()
Providers ==
  {"gemini", "copilot", "antigravity", "codex", "claude", "qwen", "iflow", "kiro"}

\* the provider keys the requests of the model carry: two providers, a key
\* that names none, and no key
NoKey == ""
RequestKeys == {"gemini", "kiro", "bogus", NoKey}

\* the body of POST /api/provider-toggle: enabled is the JSON true or false,
\* or "absent" in a body without the key
ToggleData(provider, enabled) == [provider |-> provider, enabled |-> enabled]
NoData == ToggleData(NoKey, "absent")
ToggleRequests ==
  { ToggleData(p, e) : p \in RequestKeys, e \in {"true", "false", "absent"} }

\* the file: its JSON object is a set of <<key, enabled>> pairs, one per key
ToggleFile(state, map) == [state |-> state, map |-> map]
NoToggles == ToggleFile("absent", {})

\* get_provider_toggles(), lines 495-502
ReadToggles(tf) == IF tf.state = "ok" THEN tf.map ELSE {}

\* data.get('enabled', True), line 509
EnabledOf(data) == IF data.enabled = "absent" THEN TRUE ELSE data.enabled = "true"

\* set_provider_toggle(), line 511: the only rejection
ToggleRejected(provider) == provider = NoKey

\* toggles[provider] = enabled, line 515
SetToggle(map, provider, enabled) ==
  { t \in map : t[1] # provider } \cup { <<provider, enabled>> }

(***************************************************************************)
(* The request handler.                                                    *)
(***************************************************************************)
Idle ==
  [op |-> "none", pc |-> "done", proc |-> NoPid, wasRunning |-> FALSE,
   child |-> NoPid, local |-> DefaultVersion, info |-> NoInfo,
   stopKind |-> "none", startKind |-> "none", stage |-> "none",
   copied |-> NoCopy, env |-> FALSE, vf0 |-> DefaultVersion,
   run0 |-> FALSE, result |-> NoResult,
   archive |-> NoArchive, chmodded |-> FALSE, data |-> NoData,
   logs |-> "old"]

\* the first step of each operation
FirstPc(op) ==
  CASE op = "status"  -> "status"
    [] op = "start"   -> "start"
    [] op = "stop"    -> "stop"
    [] op = "restart" -> "stop"
    [] op = "check"   -> "check_read"
    [] op = "install" -> "check_read"

\* HTTPServer.serve_forever(): the next request is taken when the handler of
\* the previous one has returned
CanDispatch(c) == c.pc = "done"

Return(c, res) == [c EXCEPT !.pc = "done", !.result = res]

\* an exception raised outside every try block of the operation: it is caught
\* by install_update()'s own try, and escapes from the other operations
Raise(c, stage) ==
  IF c.op = "install"
  THEN Return([c EXCEPT !.stage = stage], Result(FALSE, "Exception", NoPid))
  ELSE Return([c EXCEPT !.stage = stage], Result(FALSE, "Unhandled", NoPid))

\* the end of start_api_server() in its three callers: lines 745, 212, 655-664
AfterStart(c, r) ==
  IF c.op = "install"
  THEN Return([c EXCEPT !.startKind = r.kind], Result(TRUE, "Installed", NoPid))
  ELSE Return([c EXCEPT !.startKind = r.kind], r)

\* the end of stop_api_server() in its three callers
AfterStop(c, r) ==
  IF AfterStopPc(c.op, r.success) = "done"
  THEN Return([c EXCEPT !.stopKind = r.kind], r)
  ELSE [c EXCEPT !.stopKind = r.kind, !.pc = AfterStopPc(c.op, r.success)]

Active == cur.pc # "done"

TypeOK ==
  /\ procs \subseteq Pids
  /\ signalled \subseteq procs
  /\ nextPid \in 1..(MaxPid + 1)
  /\ remote \in Commits
  /\ now \in 1..(MaxTime + 1)
  /\ Len(backlog) <= MaxBacklog
  /\ fs.temps \in 0..1

InitVersions ==
  { AbsentVersion, CorruptVersion, DefaultVersion,
    VersionRec("ok", {"scripts"}, Unknown, NoTime, NoTime),
    VersionRec("ok", AllKeys \ {"scripts"}, Short(Sha(1)), Date(1), NoTime),
    VersionRec("ok", AllKeys, Short(Sha(1)), Date(1), NoTime) }

\* binary present, config present, configuration directory writable, and the
\* version file: a complete installation with any version file, and the
\* incomplete installations
InitFiles ==
  { <<TRUE, TRUE, TRUE, v>> : v \in InitVersions }
  \cup { <<FALSE, TRUE, TRUE, DefaultVersion>>,
         <<TRUE, FALSE, TRUE, DefaultVersion>>,
         <<TRUE, TRUE, FALSE, DefaultVersion>>,
         <<TRUE, TRUE, FALSE, AbsentVersion>> }

Init ==
  /\ procs = {}
  /\ signalled = {}
  /\ nextPid = 1
  /\ remote = 1
  /\ now = 1
  /\ backlog = << >>
  /\ cur = Idle
  /\ \E i \in InitFiles :
        fs = [binary |-> i[1], config |-> i[2], writable |-> i[3], version |-> i[4],
              temps |-> 0, toggles |-> NoToggles]

(***************************************************************************)
(* The environment.                                                        *)
(***************************************************************************)
\* a matching process is started outside the management server
ExternalStart ==
  /\ nextPid <= MaxPid
  /\ procs' = procs \cup {nextPid}
  /\ nextPid' = nextPid + 1
  /\ cur' = IF Active THEN [cur EXCEPT !.env = TRUE] ELSE cur
  /\ UNCHANGED <<signalled, fs, remote, now, backlog>>

\* a process exits: on the SIGTERM it was sent, or on its own
ProcExit(p) ==
  /\ p \in procs
  /\ procs' = procs \ {p}
  /\ signalled' = signalled \ {p}
  /\ cur' = IF Active /\ p \notin signalled /\ p # cur.child
            THEN [cur EXCEPT !.env = TRUE] ELSE cur
  /\ UNCHANGED <<nextPid, fs, remote, now, backlog>>

\* a commit is pushed to the remote branch
Push ==
  /\ remote < MaxCommits
  /\ remote' = remote + 1
  /\ UNCHANGED <<procs, signalled, nextPid, fs, now, backlog, cur>>

(***************************************************************************)
(* The HTTP server.                                                        *)
(***************************************************************************)
\* the operations that fetch from the remote take their time from the clock
NeedsClock(op) == op \in {"check", "install"}

Begin(op) ==
  [Idle EXCEPT !.op = op, !.pc = FirstPc(op),
               !.vf0 = fs.version, !.run0 = Status(procs).running]

\* a client connects while serve_forever() waits in select(): the request is
\* handed to do_GET / do_POST at once
Accept(op) ==
  /\ CanDispatch(cur)
  /\ backlog = << >>
  /\ NeedsClock(op) => now <= MaxTime
  /\ cur' = Begin(op)
  /\ UNCHANGED <<procs, signalled, nextPid, fs, remote, now, backlog>>

\* a client connects while a handler runs: the connection waits in the backlog
Arrive(op) ==
  /\ ~CanDispatch(cur)
  /\ Len(backlog) < MaxBacklog
  /\ backlog' = Append(backlog, op)
  /\ UNCHANGED <<procs, signalled, nextPid, fs, remote, now, cur>>

\* the handler has returned: serve_forever() takes the next connection
Dispatch ==
  /\ backlog # << >>
  /\ CanDispatch(cur)
  /\ NeedsClock(Head(backlog)) => now <= MaxTime
  /\ cur' = Begin(Head(backlog))
  /\ backlog' = Tail(backlog)
  /\ UNCHANGED <<procs, signalled, nextPid, fs, remote, now>>

(***************************************************************************)
(* ProcessSupervisor.                                                      *)
(***************************************************************************)
\* GET /api/status
DoStatus ==
  /\ cur.pc = "status"
  /\ cur' = Return([cur EXCEPT !.proc = Locate(procs)],
                   Result(Status(procs).running, "Status", Status(procs).pid))
  /\ UNCHANGED <<procs, signalled, nextPid, fs, remote, now, backlog>>

\* start_api_server(), lines 139-169: the checks and the launch
StartBegin ==
  /\ cur.pc = "start"
  /\ LET proc == Locate(procs)
         pre  == StartPrecheck(proc, fs.binary, fs.config)
         c    == [cur EXCEPT !.proc = proc,
                             !.logs = LogsAfterStart(pre, fs.writable, @)]
     IN  IF pre # NoResult
         THEN /\ cur' = AfterStart(c, pre)
              /\ UNCHANGED <<procs, nextPid>>
         ELSE IF ~fs.writable
         THEN \* the log directory cannot be made (raised at line 151) or the
              \* log files cannot be written (caught at line 189)
              /\ \/ cur' = Raise(c, "start")
                 \/ cur' = AfterStart(c, Result(FALSE, "LogError", NoPid))
              /\ UNCHANGED <<procs, nextPid>>
         ELSE /\ nextPid <= MaxPid
              /\ \/ /\ procs' = procs \cup {nextPid}
                    /\ nextPid' = nextPid + 1
                    /\ cur' = [c EXCEPT !.child = nextPid, !.pc = "start_settle"]
                 \/ \* Popen raises: caught at line 189
                    /\ cur' = AfterStart(c, Result(FALSE, "SpawnError", NoPid))
                    /\ UNCHANGED <<procs, nextPid>>
  /\ UNCHANGED <<signalled, fs, remote, now, backlog>>

\* start_api_server(), lines 172-187: after the sleep, poll the child
StartReturn ==
  /\ cur.pc = "start_settle"
  /\ cur' = AfterStart(cur, StartPoll(cur.child, procs))
  /\ UNCHANGED <<procs, signalled, nextPid, fs, remote, now, backlog>>

\* stop_api_server(), lines 195-201: locate and signal
StopBegin ==
  /\ cur.pc = "stop"
  /\ LET proc == Locate(procs)
         c    == [cur EXCEPT !.proc = proc]
     IN  IF ~StopSignals(proc)
         THEN /\ cur' = AfterStop(c, StopResult(proc, FALSE))
              /\ UNCHANGED signalled
         ELSE \/ /\ signalled' = signalled \cup {proc}
                 /\ cur' = [c EXCEPT !.pc = "stop_settle"]
              \/ \* os.kill raises (the process is another user's)
                 /\ cur' = AfterStop(c, StopResult(proc, FALSE))
                 /\ UNCHANGED signalled
  /\ UNCHANGED <<procs, nextPid, fs, remote, now, backlog>>

\* stop_api_server(), lines 202-203: after the sleep, report success
StopReturn ==
  /\ cur.pc = "stop_settle"
  /\ cur' = AfterStop(cur, StopResult(cur.proc, TRUE))
  /\ UNCHANGED <<procs, signalled, nextPid, fs, remote, now, backlog>>

\* restart_api_server(), line 211: the sleep between stop and start
RestartSleep ==
  /\ cur.pc = "restart_sleep"
  /\ cur' = [cur EXCEPT !.pc = "start"]
  /\ UNCHANGED <<procs, signalled, nextPid, fs, remote, now, backlog>>

(***************************************************************************)
(* UpdateInstaller: the remote check.                                      *)
(***************************************************************************)
\* the end of get_update_info() in its two callers: lines 725 and 599-601
AfterCheckProceeds(c, info) ==
  IF c.op = "install"
  THEN [c EXCEPT !.info = info, !.pc = "inst_locate"]
  ELSE Return([c EXCEPT !.info = info],
              Result(~info.error, IF info.error THEN "CheckError" ELSE "UpdateInfo", NoPid))
AfterCheck(c, info) ==
  IF c.op = "install"
  THEN IF info.error
       THEN Return([c EXCEPT !.info = info, !.stage = "check"],
                   Result(FALSE, "CheckFailed", NoPid))
       ELSE [c EXCEPT !.info = info, !.pc = "inst_locate"]
  ELSE Return([c EXCEPT !.info = info],
              Result(~info.error, IF info.error THEN "CheckError" ELSE "UpdateInfo", NoPid))

\* get_update_info(), lines 549-561: read the version record, build the result
CheckRead ==
  /\ cur.pc = "check_read"
  /\ IF ReadWrites(fs.version) /\ ~fs.writable
     THEN \* VERSION_FILE.write_text raises at line 543
          /\ cur' = Raise(cur, "check")
          /\ UNCHANGED fs
     ELSE /\ fs' = [fs EXCEPT !.version = VersionAfterRead(@)]
          /\ LET local == ReadVersion(fs.version)
             IN  IF "scripts" \in local.keys
                 THEN cur' = [cur EXCEPT !.local = local, !.pc = "check_fetch"]
                 ELSE \* local['scripts'] raises KeyError at line 552
                      cur' = Raise([cur EXCEPT !.local = local], "check")
  /\ UNCHANGED <<procs, signalled, nextPid, remote, now, backlog>>

\* get_update_info(), lines 563-587: fetch the remote commit, compare, stamp
CheckFetch ==
  /\ cur.pc = "check_fetch"
  /\ now' = now + 1
  /\ \/ \* urlopen or the parsing of its answer raises
        /\ cur' = AfterCheck(cur, Info(TRUE, NoSha, NoTime, FALSE))
        /\ UNCHANGED fs
     \/ LET latest == Short(Sha(remote))
            has    == HasUpdate(cur.local.sha, latest)
            local  == StampCheck(cur.local, now)
        IN  IF fs.writable
            THEN /\ fs' = [fs EXCEPT !.version = local]
                 /\ cur' = AfterCheck([cur EXCEPT !.local = local],
                                      Info(FALSE, latest, Date(remote), has))
            ELSE \* VERSION_FILE.write_text raises at line 582: caught at 584
                 /\ cur' = AfterCheck([cur EXCEPT !.local = local],
                                      Info(TRUE, latest, Date(remote), has))
                 /\ UNCHANGED fs
  /\ UNCHANGED <<procs, signalled, nextPid, remote, backlog>>

(***************************************************************************)
(* UpdateInstaller: the install.                                           *)
(***************************************************************************)
\* where install_update() goes after a step raised or returned a failure:
\* the except clause at line 666 and the return at line 626
InstallFailRestart(wasRunning) == IF wasRunning THEN "start" ELSE "done"
InstallFailPc(wasRunning) == "done"

\* install_update(), lines 626 and 667: the failure result, which carries the
\* message of the failed step and nothing about the server
InstallFailure(stage, wasRunning) ==
  Result(FALSE, IF stage = "lookup" THEN "NoFolder" ELSE "Exception", NoPid)

InstFail(c, stage) ==
  IF InstallFailPc(c.wasRunning) = "done"
  THEN Return([c EXCEPT !.stage = stage], InstallFailure(stage, c.wasRunning))
  ELSE [c EXCEPT !.stage = stage, !.pc = InstallFailPc(c.wasRunning)]

\* install_update(), lines 654-664
InstallDonePc(wasRunning) == IF wasRunning THEN "start" ELSE "done"

\* install_update(), lines 611-652: the statements of the with block, in order
InstallOrderCopyFirst ==
  << "inst_tmp", "inst_copy_scripts", "inst_copy_gui", "inst_download",
     "inst_extract", "inst_persist" >>
InstallOrderEarlyPersist ==
  << "inst_tmp", "inst_download", "inst_extract", "inst_persist",
     "inst_copy_scripts", "inst_copy_gui" >>
InstallOrder ==
  << "inst_tmp", "inst_download", "inst_extract", "inst_copy_scripts",
     "inst_copy_gui", "inst_persist" >>

NextStep(pc) ==
  LET i == CHOOSE k \in 1..Len(InstallOrder) : InstallOrder[k] = pc
  IN  IF i = Len(InstallOrder) THEN "end" ELSE InstallOrder[i + 1]

\* the with block is left after its last statement: the temporary directory
\* is removed
LeavesWith(c) == NextStep(c.pc) = "end"

\* a step of the with block succeeded: on to the next, or to lines 654-664
StepDone(c) ==
  IF ~LeavesWith(c) THEN [c EXCEPT !.pc = NextStep(c.pc)]
  ELSE IF InstallDonePc(c.wasRunning) = "done"
  THEN Return(c, Result(TRUE, "Installed", NoPid))
  ELSE [c EXCEPT !.pc = InstallDonePc(c.wasRunning)]

TempsKept(c) == fs.temps
TempsAfter(c) == IF LeavesWith(c) THEN fs.temps - 1 ELSE fs.temps

\* install_update(), lines 604-606
InstLocate ==
  /\ cur.pc = "inst_locate"
  /\ LET proc == Locate(procs)
     IN  cur' = [cur EXCEPT !.proc = proc, !.wasRunning = (proc # NoPid),
                            !.pc = IF proc # NoPid THEN "stop" ELSE Head(InstallOrder)]
  /\ UNCHANGED <<procs, signalled, nextPid, fs, remote, now, backlog>>

\* install_update(), line 608: the sleep after the stop
InstSleep ==
  /\ cur.pc = "inst_sleep"
  /\ cur' = [cur EXCEPT !.pc = Head(InstallOrder)]
  /\ UNCHANGED <<procs, signalled, nextPid, fs, remote, now, backlog>>

\* install_update(), lines 611-613: the temporary directory
InstTmp ==
  /\ cur.pc = "inst_tmp"
  /\ fs' = [fs EXCEPT !.temps = @ + 1]
  /\ cur' = StepDone(cur)
  /\ UNCHANGED <<procs, signalled, nextPid, remote, now, backlog>>

\* install_update(), lines 615-616: the archive of the branch as it is now
InstDownload ==
  /\ cur.pc = "inst_download"
  /\ \/ /\ cur' = StepDone(cur)
        /\ UNCHANGED fs
     \/ \* urlretrieve raises; the with block removes the directory
        /\ cur' = InstFail(cur, "download")
        /\ fs' = [fs EXCEPT !.temps = @ - 1]
  /\ UNCHANGED <<procs, signalled, nextPid, remote, now, backlog>>

\* install_update(), lines 619-628: extract, find the top-level folder
InstExtract ==
  /\ cur.pc = "inst_extract"
  /\ \/ /\ \E a \in Archives : cur' = StepDone([cur EXCEPT !.archive = a])
        /\ UNCHANGED fs
     \/ \* the archive holds no folder: 'No folder found in archive'
        /\ cur' = InstFail(cur, "lookup")
        /\ fs' = [fs EXCEPT !.temps = @ - 1]
     \/ \* ZipFile or extractall raises
        /\ cur' = InstFail(cur, "extract")
        /\ fs' = [fs EXCEPT !.temps = @ - 1]
  /\ UNCHANGED <<procs, signalled, nextPid, remote, now, backlog>>

\* install_update(), lines 631-637: copy the scripts into BIN_DIR
InstCopyScripts ==
  /\ cur.pc = "inst_copy_scripts"
  /\ \/ \* every file is copied and made executable; none if the archive has
        \* no scripts folder (line 632)
        /\ cur' = StepDone([cur EXCEPT
                              !.copied.bin = BinAfterCopy(cur.archive, @),
                              !.chmodded = cur.archive.scripts])
        /\ fs' = [fs EXCEPT !.temps = TempsAfter(cur)]
     \/ \* copy2 raises after some of the files were copied, or chmod raises
        \* and leaves the file copied last as copy2 made it
        /\ cur.archive.scripts
        /\ \E ch \in BOOLEAN :
              cur' = InstFail([cur EXCEPT !.copied.bin = "torn", !.chmodded = ch],
                              "copy")
        /\ fs' = [fs EXCEPT !.temps = @ - 1]
  /\ UNCHANGED <<procs, signalled, nextPid, remote, now, backlog>>

\* install_update(), lines 640-646: copy the GUI files
InstCopyGui ==
  /\ cur.pc = "inst_copy_gui"
  /\ \/ \* every file is copied; none if the archive has no gui folder
        \* (line 642)
        /\ cur' = StepDone([cur EXCEPT !.copied.gui = GuiAfterCopy(cur.archive, @)])
        /\ fs' = [fs EXCEPT !.temps = TempsAfter(cur)]
     \/ \* mkdir or copy2 raises after some of the files were copied
        /\ cur.archive.gui
        /\ cur' = InstFail([cur EXCEPT !.copied.gui = "torn"], "copy")
        /\ fs' = [fs EXCEPT !.temps = @ - 1]
  /\ UNCHANGED <<procs, signalled, nextPid, remote, now, backlog>>

\* install_update(), lines 649-652: advance the version file
InstPersist ==
  /\ cur.pc = "inst_persist"
  /\ IF ~fs.writable
     THEN \* VERSION_FILE.write_text raises
          /\ cur' = InstFail(cur, "persist")
          /\ fs' = [fs EXCEPT !.temps = @ - 1]
     ELSE LET local == AdvanceVersion(ReadVersion(fs.version), cur.info)
          IN  /\ fs' = [fs EXCEPT !.version = local, !.temps = TempsAfter(cur)]
              /\ cur' = StepDone([cur EXCEPT !.local = local])
  /\ UNCHANGED <<procs, signalled, nextPid, remote, now, backlog>>

(***************************************************************************)
(* Provider toggles: POST /api/provider-toggle.                            *)
(***************************************************************************)
\* a client posts a toggle command while serve_forever() waits
AcceptToggle(data) ==
  /\ CanDispatch(cur)
  /\ backlog = << >>
  /\ cur' = [Idle EXCEPT !.op = "toggle", !.pc = "toggle", !.data = data,
                         !.vf0 = fs.version, !.run0 = Status(procs).running]
  /\ UNCHANGED <<procs, signalled, nextPid, fs, remote, now, backlog>>

\* set_provider_toggle(), lines 507-522
DoToggle ==
  /\ cur.pc = "toggle"
  /\ IF ToggleRejected(cur.data.provider)
     THEN /\ cur' = Return(cur, Result(FALSE, "NoProvider", NoPid))
          /\ UNCHANGED fs
     ELSE IF ~fs.writable
     THEN \* PROVIDER_TOGGLES_FILE.write_text raises: caught at line 521
          /\ cur' = Return(cur, Result(FALSE, "Exception", NoPid))
          /\ UNCHANGED fs
     ELSE /\ fs' = [fs EXCEPT !.toggles =
                       ToggleFile("ok", SetToggle(ReadToggles(@), cur.data.provider,
                                                  EnabledOf(cur.data)))]
          /\ cur' = Return(cur, Result(TRUE, "ToggleSet", NoPid))
  /\ UNCHANGED <<procs, signalled, nextPid, remote, now, backlog>>

\* the toggle file is edited by hand into something json.loads rejects
ToggleFileDamaged ==
  /\ fs.toggles.state = "ok"
  /\ fs.writable
  /\ fs' = [fs EXCEPT !.toggles = ToggleFile("corrupt", {})]
  /\ UNCHANGED <<procs, signalled, nextPid, remote, now, backlog, cur>>

(***************************************************************************)
(* The specification.                                                      *)
(***************************************************************************)
Next ==
  \/ ExternalStart
  \/ \E p \in Pids : ProcExit(p)
  \/ Push
  \/ \E op \in Ops : Accept(op)
  \/ DoStatus
  \/ StartBegin
  \/ StartReturn
  \/ StopBegin
  \/ StopReturn
  \/ RestartSleep
  \/ CheckRead
  \/ CheckFetch
  \/ InstLocate
  \/ InstSleep
  \/ InstTmp
  \/ InstDownload
  \/ InstExtract
  \/ InstCopyScripts
  \/ InstCopyGui
  \/ InstPersist

Spec == Init /\ [][Next]_vars

\* the same server with clients that connect while a handler runs
NextQueue ==
  \/ Next
  \/ \E op \in Ops : Arrive(op)
  \/ Dispatch

SpecQueue == Init /\ [][NextQueue]_vars

\* the provider-toggle endpoint, which shares no state with the others
NextToggle ==
  \/ \E d \in ToggleRequests : AcceptToggle(d)
  \/ DoToggle
  \/ ToggleFileDamaged

SpecToggle == Init /\ [][NextToggle]_vars

(***************************************************************************)
(* Properties.                                                             *)
(***************************************************************************)
\* the step that ends the handling of a request
Returns(op) == cur.pc # "done" /\ cur'.pc = "done" /\ cur'.op = op

InstalledAt(c) == c.op = "install" /\ c.pc = "done"

\* the stages of install_update() that download, extract, look up the
\* top-level folder and copy
FileStages == {"download", "extract", "lookup", "copy"}

\* C1: an install that failed in the download, the extraction, the lookup of
\* the top-level folder or a file copy leaves the commit identifier and the
\* commit date of the version file as they were when the call began (a missing
\* file or key reads as 'unknown' / None).
C1_FailedInstallKeepsCommit ==
  (InstalledAt(cur) /\ cur.stage \in FileStages)
    => /\ ~cur.result.success
       /\ fs.version.sha = cur.vf0.sha
       /\ fs.version.date = cur.vf0.date

\* a copy failed in an install that had a known commit stored, an update
\* available and the server stopped
C1_Witness ==
  /\ InstalledAt(cur) /\ cur.stage = "copy" /\ cur.copied.bin = "torn"
  /\ cur.vf0.sha # Unknown /\ cur.info.hasUpdate
  /\ cur.stopKind = "Stopped"

\* C2: after an install in which every step succeeded, the version file holds
\* the latestCommit and the latestCommitDate that the check step of the same
\* call obtained.
C2_InstalledCommitIsLatest ==
  (InstalledAt(cur) /\ cur.result.success)
    => /\ ~cur.info.error
       /\ \E c \in Commits : cur.info.latest = SubSeq(Sha(c), 1, ShortLen)
       /\ "commitSha" \in fs.version.keys
       /\ fs.version.sha = cur.info.latest
       /\ fs.version.date = cur.info.latestDate

C2_Witness ==
  /\ InstalledAt(cur) /\ cur.result.success
  /\ cur.vf0.sha # Unknown /\ cur.vf0.sha # fs.version.sha
  /\ cur.copied = Copied("new", "new")

\* C3: whenever install_update() returns success, the server runs afterwards
\* exactly if it ran before the call (here: in the calls during which no
\* process appeared or exited on its own, and in which the installer saw the
\* server as it was when the call began).
C3_InstallRestoresRunning ==
  [][(Returns("install") /\ cur'.result.success
        /\ ~cur'.env /\ cur'.wasRunning = cur'.run0)
       => (Status(procs').running = cur'.run0)]_vars

\* C4: when restart_api_server() returns success, get_server_status() reports
\* running with the pid of a live process.
C4_RestartSuccessMeansRunning ==
  [][(Returns("restart") /\ cur'.result.success)
       => /\ Status(procs').running
          /\ Status(procs').pid # NoPid
          /\ Status(procs').pid \in procs'
          /\ cur'.result.pid \in procs']_vars

\* a restart of a running server that stopped it and started a new one
C4_Witness ==
  /\ cur.op = "restart" /\ cur.pc = "done" /\ cur.result.success
  /\ cur.run0 /\ cur.stopKind = "Stopped"
  /\ cur.result.pid \in procs /\ cur.proc \notin procs

\* C5: restart_api_server() never returns from its stop step: whatever stop
\* returned, start is attempted; and with binary, config and log files in
\* place and a child that was launched and is alive after the settle
\* interval, or a start rejected because a server is found, a server is
\* running when restart returns.
C5_RestartDefinedFromBothStates ==
  [][Returns("restart")
       => /\ cur.pc \in {"start", "start_settle"}
          /\ (/\ fs.binary /\ fs.config /\ fs.writable
              /\ cur'.startKind \notin {"SpawnError", "ExitedImmediately"})
             => Status(procs').running]_vars

\* a restart with nothing running: stop failed with NotRunning, start launched
C5_Witness ==
  /\ cur.op = "restart" /\ cur.pc = "done"
  /\ ~cur.run0 /\ cur.stopKind = "NotRunning"
  /\ cur.startKind = "Started" /\ cur.result.pid \in procs

\* C6: when a managed process exists as start_api_server() is called, start
\* ends at once with AlreadyRunning, launches nothing, and the failure it
\* returns carries the pid of a live process: the one the locator found.
C6_StartRejectedWhenRunning ==
  [][(cur.pc = "start" /\ cur'.pc # "start" /\ procs # {})
       => /\ cur'.pc = "done"
          /\ cur'.startKind = "AlreadyRunning"
          /\ procs' = procs /\ nextPid' = nextPid
          /\ cur'.proc \in procs
          /\ (cur.op # "install"
                => cur'.result = Result(FALSE, "AlreadyRunning", cur'.proc))]_vars

C6_Witness ==
  /\ cur.op = "start" /\ cur.pc = "done"
  /\ cur.result.kind = "AlreadyRunning" /\ ~cur.result.success
  /\ cur.result.pid \in procs

\* C7: when no managed process exists as stop_api_server() is called, stop
\* ends at once with NotRunning and sends no signal.
C7_StopRejectedWhenNotRunning ==
  [][(cur.pc = "stop" /\ cur'.pc # "stop" /\ procs = {})
       => /\ cur'.stopKind = "NotRunning"
          /\ signalled' = signalled /\ procs' = procs
          /\ (cur.op = "stop"
                => /\ cur'.pc = "done"
                   /\ cur'.result = Result(FALSE, "NotRunning", NoPid))]_vars

C7_Witness ==
  /\ cur.op = "stop" /\ cur.pc = "done"
  /\ cur.result.kind = "NotRunning" /\ signalled = {}

\* C8: after a successful remote check, hasUpdate is true exactly if the
\* commit stored before the call is 'unknown' (or missing) or differs from the
\* latestCommit that was fetched.
C8_HasUpdate ==
  (cur.op \in {"check", "install"} /\ cur.info.latest # NoSha)
    => (cur.info.hasUpdate
          <=> (ReadVersion(cur.vf0).sha = Unknown
                 \/ ReadVersion(cur.vf0).sha # cur.info.latest))

\* a check that found the stored commit equal to the remote one
C8_Witness ==
  /\ cur.op = "check" /\ cur.pc = "done" /\ cur.result.success
  /\ ~cur.info.hasUpdate /\ cur.vf0.sha = cur.info.latest

\* C9: while install_update() is in its download, its extraction or one of
\* its sleeps, a request that has arrived is handed to a handler.
InstallBlocking == {"inst_download", "inst_extract", "stop_settle", "inst_sleep"}

C9_StatusNotBlockedByInstall ==
  (cur.op = "install" /\ cur.pc \in InstallBlocking
     /\ backlog # << >> /\ Head(backlog) = "status")
    => CanDispatch(cur)

\* C10: an install that stopped the server and then failed in the download,
\* the extraction, the lookup or a copy returns at once: it starts nothing,
\* and the process it signalled is gone or still has the signal pending.
C10_NoRestartAfterFailedInstall ==
  (cur.op = "install" /\ cur.stage \in FileStages /\ cur.stopKind = "Stopped")
    => /\ cur.pc = "done"
       /\ ~cur.result.success
       /\ cur.startKind = "none"
       /\ cur.child = NoPid
       /\ (cur.proc \in procs => cur.proc \in signalled)

C10_Witness ==
  /\ InstalledAt(cur) /\ cur.stage = "extract"
  /\ cur.wasRunning /\ cur.stopKind = "Stopped"
  /\ procs = {} /\ cur.run0 /\ ~cur.env

\* C11: an install that stopped the server and then failed in the download,
\* the extraction, the lookup or a copy returns a failure that says so: it is
\* not the result the same failure gives when the server was left untouched.
C11_FailureSaysServerStopped ==
  (InstalledAt(cur) /\ cur.stage \in FileStages /\ cur.stopKind = "Stopped")
    => cur.result # InstallFailure(cur.stage, FALSE)

CanonicalInstall ==
  << "stop", "stop_settle", "inst_sleep", "inst_tmp", "inst_download",
     "inst_extract", "inst_copy_scripts", "inst_copy_gui", "inst_persist",
     "start", "start_settle" >>

PlaceOf(pc) == CHOOSE k \in 1..Len(CanonicalInstall) : CanonicalInstall[k] = pc

InCanonical(pc) == \E k \in 1..Len(CanonicalInstall) : CanonicalInstall[k] = pc

C13_InstallStepsInOrder ==
  [][(cur.op = "install" /\ cur.pc # "done")
       => /\ (cur'.pc # cur.pc /\ InCanonical(cur.pc))
              => \/ cur'.pc = "done"
                 \/ InCanonical(cur'.pc) /\ PlaceOf(cur'.pc) = PlaceOf(cur.pc) + 1
                 \/ cur.pc = "stop" /\ cur'.pc = "inst_sleep"
          /\ (cur'.pc # cur.pc /\ cur.pc = "inst_locate")
              => cur'.pc = IF cur'.wasRunning THEN "stop" ELSE "inst_tmp"
          /\ (cur'.copied # cur.copied)
              => /\ cur.pc \in {"inst_copy_scripts", "inst_copy_gui"}
                 /\ cur.wasRunning => cur.stopKind # "none"
          /\ (fs'.version.sha # fs.version.sha \/ fs'.version.date # fs.version.date)
              => cur.pc = "inst_persist"
          /\ (cur'.child # cur.child)
              => /\ cur.pc = "start"
                 /\ fs.version.sha = cur.info.latest]_vars

\* an install that stopped the server, copied scripts and GUI, advanced the
\* version file and started the server again
C13_Witness ==
  /\ InstalledAt(cur) /\ cur.result.success
  /\ cur.wasRunning /\ cur.stopKind = "Stopped" /\ cur.startKind = "Started"
  /\ cur.copied.bin = "new" /\ cur.copied.gui = "new"
  /\ fs.version.sha = cur.info.latest /\ cur.vf0.sha # cur.info.latest
  /\ cur.child \in procs

\* C14: a remote check that succeeded leaves the version file with lastCheck
\* set to the time of the check, hasUpdate true or false, and with every other
\* field as get_local_version() read it when the call began.
C14_CheckStampsLastCheck ==
  [][(cur.pc = "check_fetch" /\ cur'.pc # "check_fetch" /\ ~cur'.info.error)
       => /\ fs'.version.state = "ok"
          /\ "lastCheck" \in fs'.version.keys
          /\ fs'.version.lastCheck = now
          /\ fs'.version.sha = ReadVersion(cur.vf0).sha
          /\ fs'.version.date = ReadVersion(cur.vf0).date
          /\ fs'.version.keys \ {"lastCheck"} = ReadVersion(cur.vf0).keys \ {"lastCheck"}]_vars

\* a second check, which found no update and moved lastCheck on
C14_Witness ==
  /\ cur.op = "check" /\ cur.pc = "done" /\ ~cur.info.error
  /\ ~cur.info.hasUpdate
  /\ cur.vf0.lastCheck # NoTime
  /\ fs.version.lastCheck = now - 1 /\ fs.version.lastCheck # cur.vf0.lastCheck

\* C15: the record get_local_version() returns has all four required keys,
\* whatever the stored record holds, and an absent file is created.
C15_ReadInjectsAllDefaults ==
  (cur.op \in {"check", "install"} /\ cur.pc # "check_read")
    => /\ AllKeys \subseteq ReadVersion(cur.vf0).keys
       /\ (cur.vf0.state = "absent" /\ fs.writable) => fs.version.state = "ok"

\* C16: no operation ends with an exception that left it unhandled.
C16_NoUnhandledException ==
  (cur.op \in Ops /\ cur.pc = "done") => cur.result.kind # "Unhandled"

\* C17: an install whose remote check failed returns a failure at once: it
\* has not located or stopped the server, made no temporary directory,
\* written no live file, started nothing, and the stored commit and date read
\* as they did when the call began.
C17_FailedCheckInstallsNothing ==
  (cur.op = "install" /\ (cur.info.error \/ cur.stage = "check"))
    => /\ cur.pc = "done" /\ ~cur.result.success
       /\ cur.proc = NoPid /\ cur.stopKind = "none" /\ cur.startKind = "none"
       /\ cur.child = NoPid
       /\ cur.copied = NoCopy /\ cur.archive = NoArchive
       /\ fs.temps = 0
       /\ ReadVersion(fs.version).sha = ReadVersion(cur.vf0).sha
       /\ ReadVersion(fs.version).date = ReadVersion(cur.vf0).date

\* an install with a server running and an update to fetch, whose check
\* failed on the network
C17_Witness ==
  /\ InstalledAt(cur) /\ cur.info.error /\ cur.info.latest = NoSha
  /\ cur.run0 /\ ~cur.env /\ procs # {} /\ signalled = {}
  /\ cur.vf0.sha # Unknown /\ cur.vf0.sha # Short(Sha(remote))

\* C18: when install_update() has returned, the temporary directory it made
\* is gone: none is left by any number of installs, and one exists only
\* while an install is inside its with block.
WithBlock ==
  {"inst_download", "inst_extract", "inst_copy_scripts", "inst_copy_gui", "inst_persist"}

C18_NoTempLeft ==
  /\ fs.temps \in 0..1
  /\ cur.pc = "done" => fs.temps = 0
  /\ fs.temps = 1 <=> (cur.op = "install" /\ cur.pc \in WithBlock)

\* an update attempt that failed in a copy, made after an earlier check or
\* install had stamped the version file
C18_Witness ==
  /\ InstalledAt(cur) /\ cur.stage = "copy" /\ fs.temps = 0
  /\ cur.vf0.lastCheck # NoTime
  /\ cur.vf0.sha # Unknown /\ cur.vf0.sha # cur.info.latest

\* C19: in an install whose archive has a scripts folder and no gui folder,
\* the live GUI files stay as they were; once the copy steps are passed, every
\* script of the archive is in the live script directory, mode 0o755 set.
C19_ScriptsOnlyArchive ==
  (cur.op = "install" /\ cur.archive = Archive(TRUE, FALSE))
    => /\ cur.copied.gui = "old"
       /\ (cur.pc \in {"inst_copy_gui", "inst_persist", "start", "start_settle"}
             \/ (cur.pc = "done" /\ cur.result.success))
            => cur.copied.bin = "new" /\ cur.chmodded

C19_Witness ==
  /\ InstalledAt(cur) /\ cur.result.success
  /\ cur.archive = Archive(TRUE, FALSE)
  /\ cur.copied = Copied("new", "old") /\ cur.chmodded
  /\ fs.version.sha = cur.info.latest

\* C20: a toggle command whose provider key is none of the eight provider
\* identifiers fails and leaves the toggle file as it was.
C20_UnknownProviderRejected ==
  [][(cur.pc = "toggle" /\ cur'.pc = "done" /\ cur.data.provider \notin Providers)
       => /\ ~cur'.result.success
          /\ fs'.toggles = fs.toggles]_vars

\* C21: a start rejected by one of its three checks has launched nothing and
\* has left the log files as they were; a call has emptied the log files only
\* if its start found no server and found the binary and the config.
StartRejections == {"AlreadyRunning", "BinaryMissing", "ConfigMissing"}

C21_RejectedStartTouchesNothing ==
  /\ cur.startKind \in StartRejections
       => /\ cur.pc = "done"
          /\ cur.logs = "old"
          /\ cur.child = NoPid
          /\ cur.startKind = "AlreadyRunning" <=> cur.proc # NoPid
  /\ cur.logs = "truncated"
       => /\ cur.startKind \notin StartRejections
          /\ cur.proc = NoPid /\ fs.binary /\ fs.config

\* a restart with the config file missing: the stop found nothing, the start
\* was rejected
C21_Witness ==
  /\ cur.op = "restart" /\ cur.pc = "done"
  /\ cur.result = Result(FALSE, "ConfigMissing", NoPid)
  /\ cur.logs = "old" /\ procs = {} /\ nextPid = 1

\* C22: after its settle interval start_api_server() polls the child it
\* launched, once: it reports success, with the child's pid, exactly if the
\* child is alive then, and a failure if the child has exited, whatever other
\* server is running.
C22_StartRechecksChild ==
  [][(cur.pc = "start_settle" /\ cur'.pc # "start_settle")
       => /\ cur'.pc = "done"
          /\ cur'.startKind = IF cur.child \in procs THEN "Started"
                                                     ELSE "ExitedImmediately"
          /\ cur.op # "install"
               => cur'.result = IF cur.child \in procs
                                THEN Result(TRUE, "Started", cur.child)
                                ELSE Result(FALSE, "ExitedImmediately", NoPid)]_vars

\* a start whose child exited during the settle interval while a server
\* started outside is running
C22_Witness ==
  /\ cur.op = "start" /\ cur.pc = "done"
  /\ cur.result = Result(FALSE, "ExitedImmediately", NoPid)
  /\ cur.child # NoPid /\ cur.child \notin procs /\ procs # {}

C24_NoUpdateAfterInstall ==
  /\ (InstalledAt(cur) /\ cur.result.success
        /\ cur.info.latest = Short(Sha(remote)))
       => /\ Len(fs.version.sha) = ShortLen
          /\ ~HasUpdate(ReadVersion(fs.version).sha, Short(Sha(remote)))
  /\ (cur.op = "check" /\ cur.pc = "done" /\ ~cur.info.error
        /\ cur.vf0.sha = SubSeq(Sha(remote), 1, ShortLen)
        /\ cur.info.latest = SubSeq(Sha(remote), 1, ShortLen))
       => ~cur.info.hasUpdate

\* a check after an install of a pushed commit, the remote branch unmoved
C24_Witness ==
  /\ cur.op = "check" /\ cur.pc = "done" /\ ~cur.info.error
  /\ ~cur.info.hasUpdate
  /\ cur.vf0.sha \notin { v.sha : v \in InitVersions }
  /\ cur.vf0.sha = Short(Sha(remote))

\* C25: when install_update() returns success and a server is running, the
\* running server is the child the install started after its copy steps, and
\* the process found running before the install is gone (in the calls during
\* which no process appeared or exited on its own).
C25_RunningServerIsNew ==
  [][(Returns("install") /\ cur'.result.success /\ ~cur'.env /\ procs' # {})
       => /\ cur'.proc \notin procs'
          /\ Locate(procs') = cur'.child]_vars

====
